---- MODULE Spec2Model ----
(***************************************************************************)
(* NanoWatchdog: the persistent event log (nwEEPROM, nwEvent) at the byte  *)
(* level of the EEPROM, and the watchdog engine that writes to it.         *)
(*                                                                         *)
(* Target: Arduino Nano (AVR): int is 16 bits two's complement, time_t is  *)
(* an unsigned 32 bits integer, multi-byte values are little-endian and    *)
(* struct nwEventStr has no padding (37 bytes).                            *)
(***************************************************************************)
EXTENDS Integers, Sequences, FiniteSets, TLC

VARIABLES
    nvm,        \* the EEPROM: the sequence of its bytes, from address 0
    prev,       \* the EEPROM as it was before the last step
    clock,      \* the value now() returns, in seconds
    cur,        \* the nwEvent object last read or constructed by the caller
    op,         \* the last nwEEPROM / nwEvent operation executed, with its arguments
    hist,       \* the events handed to nwEEPROMResetEventSetNew, oldest first
    stamps,     \* the value of now() when each event of hist was constructed
    steps,      \* number of operations executed so far
    enabled,    \* engine: the watchdog is armed
    interval,   \* engine: ping timeout, in seconds
    date_set,   \* engine: the wall clock has been set since boot
    last_ping,  \* engine: time of the last ping, 0 if none since START
    test_mode,  \* engine: a fire logs but does not pulse the reset output
    latched,    \* a fire completed and no START was executed since
    fires,      \* number of fires so far
    pulses,     \* number of pulses issued on the reset output so far
    pin,        \* the level of each digital output
    blink       \* the call of nwBlinkPin in progress: its position and arguments

vars == <<nvm, prev, clock, cur, op, hist, stamps, steps,
          enabled, interval, date_set, last_ping, test_mode, latched, fires, pulses,
          pin, blink>>

engineVars == <<enabled, interval, date_set, last_ping, test_mode, latched, fires, pulses,
                pin, blink>>

----------------------------------------------------------------------------
(* Program constants                                                       *)

nwVersionSize == 32
EEPROM_SIZE == 1024
NW_MAX_RESET_EVENT == 10

NW_REASON_INIT == 0
NW_REASON_NOPING == 1
NW_REASON_DEFAULT == NW_REASON_NOPING
NW_REASON_COMMAND_START == 16
NW_REASON_MAX == 127

\* sizeof( time_t ) and sizeof( int ) on the target
SizeofTimeT == 4
SizeofInt == 2

\* "NanoWatchdog v11.2017" as ASCII codes (without the null terminator)
nwVersionString ==
    <<78, 97, 110, 111, 87, 97, 116, 99, 104, 100, 111, 103, 32,
      118, 49, 49, 46, 50, 48, 49, 55>>

\* sizeof( nwEventStr ): char[32] + time_t + byte
nwEventStrSize == nwVersionSize + SizeofTimeT + 1

nwInitEventAdr == 0
nwResetCountAdr == nwInitEventAdr + nwEventStrSize
nwResetEventAdr == nwResetCountAdr + SizeofInt

----------------------------------------------------------------------------
(* Machine integers                                                        *)

Byte == 0..255

\* a time_t value, as its four bytes, least significant first
TimeT(n) == <<n % 256, (n \div 256) % 256, (n \div 65536) % 256, (n \div 16777216) % 256>>

\* a >= b on time_t values (unsigned 32 bits)
RECURSIVE TimeGEFrom(_, _, _)
TimeGEFrom(a, b, k) ==
    IF k = 0 THEN TRUE
    ELSE IF a[k] # b[k] THEN a[k] > b[k]
    ELSE TimeGEFrom(a, b, k - 1)

TimeGE(a, b) == TimeGEFrom(a, b, SizeofTimeT)

\* an int as its two bytes, least significant first (two's complement)
IntBytes(c) == <<(c % 65536) % 256, (c % 65536) \div 256>>

\* the int two bytes stand for
BytesInt(bs) ==
    LET u == bs[1] + 256 * bs[2]
    IN  IF u >= 32768 THEN u - 65536 ELSE u

\* an int after assignment to an int variable (16 bits)
ToInt(x) == BytesInt(IntBytes(x))

----------------------------------------------------------------------------
(* The EEPROM                                                              *)

\* The EEPROM is the sequence of its bytes: the byte at address a is m[a + 1].
EEPROMread(m, a) == m[a + 1]

\* EEPROM.get( adr, T ): the len bytes starting at adr
EEPROMget(m, adr, len) == SubSeq(m, adr + 1, adr + len)

\* EEPROM.put( adr, T ): the bytes bs stored from adr on
EEPROMput(m, adr, bs) ==
    SubSeq(m, 1, adr) \o bs \o SubSeq(m, adr + Len(bs) + 1, Len(m))

----------------------------------------------------------------------------
(* nwEvent                                                                 *)

\* the byte b with bit 7 set (b | B10000000)
OrB10000000(b) == IF b >= 128 THEN b ELSE b + 128

\* setup without its "_time = now()" line, the time left at zero
setupNoTime(now) ==
    [version |-> [k \in 1..nwVersionSize |->
                     IF k <= Len(nwVersionString) THEN nwVersionString[k] ELSE 0],
     time    |-> TimeT(0),
     reason  |-> NW_REASON_DEFAULT,
     ack     |-> FALSE]

\* nwEvent::setup, with now() = now: the version string copied into the
\* zeroed _version buffer, the time, the default reason, not acknowledged
setup(now) ==
    [version |-> [k \in 1..nwVersionSize |->
                     IF k <= Len(nwVersionString) THEN nwVersionString[k] ELSE 0],
     time    |-> TimeT(now),
     reason  |-> NW_REASON_DEFAULT,
     ack     |-> FALSE]

\* nwEvent::nwEvent()
nwEventDefault(now) == setup(now)

\* constructor that leaves the default reason
nwEventReasonDropped(now, reason) == setup(now)

\* nwEvent::nwEvent( int reason )
nwEventReason(now, reason) == [setup(now) EXCEPT !.reason = ToInt(reason)]

\* nwEvent::readFromEEPROM( adr ): the object deserialized from adr
readFromEEPROM(m, adr) ==
    LET ev == EEPROMget(m, adr, nwEventStrSize)
        ack_reason == ev[nwEventStrSize]
    IN  [version |-> SubSeq(ev, 1, nwVersionSize),
         time    |-> SubSeq(ev, nwVersionSize + 1, nwVersionSize + SizeofTimeT),
         reason  |-> ack_reason % 128,
         ack     |-> (ack_reason \div 128) # 0]

\* writeToEEPROM without its "ev.ack_reason |= ..." line
nwEventStrNoAck(ev) == ev.version \o ev.time \o <<ev.reason % 256>>

\* the nwEventStr that nwEvent::writeToEEPROM builds: ack_reason is _reason
\* converted to a byte, then or-ed with B10000000 when _ack is set
nwEventStr(ev) ==
    LET reason_byte == ev.reason % 256
        ack_reason  == IF ev.ack THEN OrB10000000(reason_byte) ELSE reason_byte
    IN  ev.version \o ev.time \o <<ack_reason>>

\* nwEvent::writeToEEPROM( adr ): the EEPROM after the object is serialized at adr
writeToEEPROM(m, ev, adr) == EEPROMput(m, adr, nwEventStr(ev))

\* nwEvent::acknowledge( ack )
acknowledge(ev, ack) == [ev EXCEPT !.ack = ack]

\* nwEvent::isNull()
isNull(ev) == ev.time = TimeT(0)

----------------------------------------------------------------------------
(* nwEEPROM                                                                *)

nwEEPROMInitEventGet(m) == readFromEEPROM(m, nwInitEventAdr)

nwEEPROMInitEventSet(m, ev) == writeToEEPROM(m, ev, nwInitEventAdr)

nwEEPROMResetEventCountGet(m) == BytesInt(EEPROMget(m, nwResetCountAdr, SizeofInt))

nwEEPROMResetEventGet(m, index) ==
    readFromEEPROM(m, nwResetEventAdr + index * nwEventStrSize)

\* slot address computed from the address of the count instead of the
\* address of the first slot
nwEEPROMResetEventSetFromCount(m, ev, index) ==
    writeToEEPROM(m, ev, nwResetCountAdr + index * nwEventStrSize)

nwEEPROMResetEventSet(m, ev, index) ==
    writeToEEPROM(m, ev, nwResetEventAdr + index * nwEventStrSize)

\* the loop run upwards: for( i=1 ; i<=count ; ++i ) slot i := slot i-1
RECURSIVE ShiftUpFrom(_, _, _)
ShiftUpFrom(m, i, count) ==
    IF i <= count
    THEN ShiftUpFrom(nwEEPROMResetEventSet(m, nwEEPROMResetEventGet(m, i - 1), i), i + 1, count)
    ELSE m

ShiftLoopAscending(m, i) == ShiftUpFrom(m, 1, i)

\* the loop storing the shifted events as not acknowledged
RECURSIVE ShiftLoopUnacked(_, _)
ShiftLoopUnacked(m, i) ==
    IF i > 0
    THEN ShiftLoopUnacked(
             nwEEPROMResetEventSet(m, acknowledge(nwEEPROMResetEventGet(m, i - 1), FALSE), i),
             i - 1)
    ELSE m

\* the loop of nwEEPROMResetEventSetNew: for( i ; i>0 ; --i ) slot i := slot i-1
RECURSIVE ShiftLoop(_, _)
ShiftLoop(m, i) ==
    IF i > 0
    THEN ShiftLoop(nwEEPROMResetEventSet(m, nwEEPROMResetEventGet(m, i - 1), i), i - 1)
    ELSE m

\* nwEEPROMResetEventSetNew storing the event after the stored ones instead
\* of shifting them: slot 0 stays the oldest event
SetNewAppend(m, ev, index) ==
    LET count0  == nwEEPROMResetEventCountGet(m)
        count1  == IF count0 = NW_MAX_RESET_EVENT THEN count0 - 1 ELSE count0
        written == nwEEPROMResetEventSet(m, ev, count1)
    IN  EEPROMput(written, nwResetCountAdr, IntBytes(ToInt(count1 + 1)))

\* nwEEPROMResetEventSetNew without its "if( count == NW_MAX_RESET_EVENT )" test
SetNewNoSaturation(m, ev, index) ==
    LET count0  == nwEEPROMResetEventCountGet(m)
        shifted == ShiftLoop(m, count0)
        written == nwEEPROMResetEventSet(shifted, ev, 0)
    IN  EEPROMput(written, nwResetCountAdr, IntBytes(ToInt(count0 + 1)))

\* nwEEPROMResetEventSetNew( ev, index ): index is not read by the function
nwEEPROMResetEventSetNew(m, ev, index) ==
    LET count0  == nwEEPROMResetEventCountGet(m)
        count1  == IF count0 = NW_MAX_RESET_EVENT THEN count0 - 1 ELSE count0
        shifted == ShiftLoop(m, count1)
        written == nwEEPROMResetEventSet(shifted, ev, 0)
        count2  == ToInt(count1 + 1)
    IN  EEPROMput(written, nwResetCountAdr, IntBytes(count2))

----------------------------------------------------------------------------
(* Bounds and inputs                                                       *)

\* operations executed in a run of SpecLog
MaxSteps == 1
\* largest stored count of an initial EEPROM content
MaxStoredCount == 12

\* reason codes handed to nwEvent( int reason )
ReasonArgs == {NW_REASON_INIT, NW_REASON_COMMAND_START}

\* the events a caller constructs when now() = now
EventArgs(now) == {nwEventDefault(now)} \cup {nwEventReason(now, r) : r \in ReasonArgs}

\* the slot indexes the header documents: 0 .. NW_MAX_RESET_EVENT-1
SlotArgs == 0..(NW_MAX_RESET_EVENT - 1)

\* index arguments of nwEEPROMResetEventSetNew (0 is the default)
SetNewIndexArgs == {0, NW_MAX_RESET_EVENT - 1}

----------------------------------------------------------------------------
(* EEPROM contents a device can hold when the program starts               *)

\* an erased EEPROM: every byte is 0xFF
Erased == [a \in 1..EEPROM_SIZE |-> 255]

\* the event that n earlier resets left in slot k (slot 0 is the newest);
\* some are external resets, some were acknowledged
UsedSlot(n, k) ==
    acknowledge(nwEventReason(n - k, IF k % 2 = 1 THEN NW_REASON_COMMAND_START
                                                   ELSE NW_REASON_NOPING),
                k % 3 = 2)

RECURSIVE FillSlots(_, _, _)
FillSlots(m, n, k) ==
    IF k = n THEN m ELSE FillSlots(nwEEPROMResetEventSet(m, UsedSlot(n, k), k), n, k + 1)

\* an initialized log holding n reset events, with the count bytes set to c
UsedLog(n, c) ==
    EEPROMput(FillSlots(nwEEPROMInitEventSet(Erased, nwEventReason(1, NW_REASON_INIT)), n, 0),
              nwResetCountAdr, IntBytes(c))

\* a fresh device, the logs of 0..10 events, and full logs whose count bytes
\* were left out of range
InitialContents ==
    {Erased} \cup {UsedLog(n, n) : n \in 0..NW_MAX_RESET_EVENT}
             \cup {UsedLog(NW_MAX_RESET_EVENT, c) : c \in (NW_MAX_RESET_EVENT + 1)..MaxStoredCount}

NoOp == [name |-> "none", index |-> 0, ev |-> setup(0)]

\* the levels of a digital output
LOW == "LOW"
HIGH == "HIGH"

\* the outputs nwBlinkPin is called on: the reset output and a LED
ResetOut == "ResetOut"
PinArgs == {ResetOut, "Led"}

\* the levels nwBlinkPin writes to the pin, with the first and the second
\* write exchanged
nwBlinkPinWritesSwapped == <<LOW, HIGH>>

\* the levels nwBlinkPin writes to the pin, in order, delay( blink ) between
nwBlinkPinWrites == <<HIGH, LOW>>

\* no call of nwBlinkPin in progress
NoBlink == [pc |-> "idle", pin |-> ResetOut, ms |-> 0]

EngineIdle ==
    /\ enabled = FALSE
    /\ interval = 60
    /\ date_set = FALSE
    /\ last_ping = 0
    /\ test_mode = FALSE
    /\ latched = FALSE
    /\ fires = 0
    /\ pulses = 0
    /\ pin = [p \in PinArgs |-> LOW]
    /\ blink = NoBlink

----------------------------------------------------------------------------
(* SpecLog: the nwEEPROM functions called on any initial content           *)

InitLog ==
    /\ nvm \in InitialContents
    /\ prev = nvm
    /\ clock = NW_MAX_RESET_EVENT + 1
    /\ cur = setup(clock)
    /\ op = NoOp
    /\ hist = <<>>
    /\ stamps = <<>>
    /\ steps = 0
    /\ EngineIdle

\* ev = nwEEPROMInitEventGet()
InitEventGet ==
    /\ steps < MaxSteps
    /\ cur' = nwEEPROMInitEventGet(nvm)
    /\ op' = [name |-> "InitEventGet", index |-> 0, ev |-> cur']
    /\ prev' = nvm
    /\ steps' = steps + 1
    /\ UNCHANGED <<nvm, clock, hist, stamps, engineVars>>

\* nwEEPROMInitEventSet( ev )
InitEventSet ==
    /\ steps < MaxSteps
    /\ \E ev \in EventArgs(clock) :
          /\ nvm' = nwEEPROMInitEventSet(nvm, ev)
          /\ op' = [name |-> "InitEventSet", index |-> 0, ev |-> ev]
    /\ prev' = nvm
    /\ steps' = steps + 1
    /\ UNCHANGED <<clock, cur, hist, stamps, engineVars>>

\* ev = nwEEPROMResetEventGet( index )
ResetEventGet ==
    /\ steps < MaxSteps
    /\ \E index \in SlotArgs :
          /\ cur' = nwEEPROMResetEventGet(nvm, index)
          /\ op' = [name |-> "ResetEventGet", index |-> index, ev |-> cur']
    /\ prev' = nvm
    /\ steps' = steps + 1
    /\ UNCHANGED <<nvm, clock, hist, stamps, engineVars>>

\* nwEEPROMResetEventSet( ev, index )
ResetEventSet ==
    /\ steps < MaxSteps
    /\ \E ev \in EventArgs(clock), index \in SlotArgs :
          /\ nvm' = nwEEPROMResetEventSet(nvm, ev, index)
          /\ op' = [name |-> "ResetEventSet", index |-> index, ev |-> ev]
    /\ prev' = nvm
    /\ steps' = steps + 1
    /\ UNCHANGED <<clock, cur, hist, stamps, engineVars>>

\* nwEEPROMResetEventSetNew( ev, index )
ResetEventSetNew ==
    /\ steps < MaxSteps
    /\ \E ev \in EventArgs(clock), index \in SetNewIndexArgs :
          /\ nvm' = nwEEPROMResetEventSetNew(nvm, ev, index)
          /\ op' = [name |-> "ResetEventSetNew", index |-> index, ev |-> ev]
    /\ prev' = nvm
    /\ steps' = steps + 1
    /\ UNCHANGED <<clock, cur, hist, stamps, engineVars>>

\* the slot index acknowledged in m: nwEEPROMResetEventGet( index ),
\* acknowledge(), nwEEPROMResetEventSet( ev, index )
AcknowledgeSlot(m, index) ==
    nwEEPROMResetEventSet(m, acknowledge(nwEEPROMResetEventGet(m, index), TRUE), index)

\* ACKNOWLEDGE <index>, on a slot that holds an event
Acknowledge ==
    /\ steps < MaxSteps
    /\ \E index \in SlotArgs :
          /\ index < nwEEPROMResetEventCountGet(nvm)
          /\ nvm' = AcknowledgeSlot(nvm, index)
          /\ cur' = acknowledge(nwEEPROMResetEventGet(nvm, index), TRUE)
          /\ op' = [name |-> "Acknowledge", index |-> index, ev |-> cur']
    /\ prev' = nvm
    /\ steps' = steps + 1
    /\ UNCHANGED <<clock, hist, stamps, engineVars>>

NextLog ==
    \/ InitEventGet
    \/ InitEventSet
    \/ ResetEventGet
    \/ ResetEventSet
    \/ ResetEventSetNew
    \/ Acknowledge

SpecLog == InitLog /\ [][NextLog]_vars

----------------------------------------------------------------------------
(* The log as the claims read it                                           *)

\* the 37 bytes of slot index
SlotBytes(m, index) == EEPROMget(m, nwResetEventAdr + index * nwEventStrSize, nwEventStrSize)

\* first address after the ten slots
ReservedAdr == nwResetEventAdr + NW_MAX_RESET_EVENT * nwEventStrSize

\* the bytes the layout leaves unused
ReservedBytes(m) == EEPROMget(m, ReservedAdr, EEPROM_SIZE - ReservedAdr)

Min(a, b) == IF a <= b THEN a ELSE b

ValidCount(c) == c >= 0 /\ c <= NW_MAX_RESET_EVENT

----------------------------------------------------------------------------
(* Claims checked under SpecLog                                            *)

\* C1: one call of nwEEPROMResetEventSetNew on a stored count c in 0..10
\* leaves count = min(c + 1, 10), slot 0 holding the inserted event, and
\* every slot i in [1, new count) holding what slot i-1 held before the call.
C1_InsertContract ==
    (op.name = "ResetEventSetNew" /\ ValidCount(nwEEPROMResetEventCountGet(prev))) =>
        LET c == nwEEPROMResetEventCountGet(prev)
            n == nwEEPROMResetEventCountGet(nvm)
        IN  /\ n = Min(c + 1, NW_MAX_RESET_EVENT)
            /\ SlotBytes(nvm, 0) = nwEventStr(op.ev)
            /\ nwEEPROMResetEventGet(nvm, 0) = op.ev
            /\ \A i \in 1..(n - 1) : SlotBytes(nvm, i) = SlotBytes(prev, i - 1)

\* C1 witness: an insert into a full log, which dropped the oldest event
\* and moved a different one into slot 9.
C1_Witness ==
    /\ op.name = "ResetEventSetNew"
    /\ nwEEPROMResetEventCountGet(prev) = NW_MAX_RESET_EVENT
    /\ nwEEPROMResetEventCountGet(nvm) = NW_MAX_RESET_EVENT
    /\ SlotBytes(nvm, 9) = SlotBytes(prev, 8)
    /\ SlotBytes(prev, 9) # SlotBytes(prev, 8)
    /\ nwEEPROMResetEventGet(nvm, 0) = op.ev

\* C4: on a fresh device (every byte 0xFF) nwEEPROMInitEventGet returns an
\* event for which isNull() is true.
C4_FreshInitEventIsNull ==
    (op.name = "InitEventGet" /\ prev = Erased) => isNull(cur)

\* C5: when the stored count is outside 0..10, nwEEPROMResetEventSetNew
\* treats it as 0: afterwards the stored count is 1 and slot 0 holds the
\* inserted event.
C5_OutOfRangeCountIsZero ==
    (op.name = "ResetEventSetNew" /\ ~ValidCount(nwEEPROMResetEventCountGet(prev))) =>
        /\ nwEEPROMResetEventCountGet(nvm) = 1
        /\ SlotBytes(nvm, 0) = nwEventStr(op.ev)

\* C6: whatever the initial content and whatever nwEEPROMInitEventSet,
\* nwEEPROMResetEventSet (index in [0, 10)) and nwEEPROMResetEventSetNew
\* calls are made, no byte at an address in [409, 1024) is written.
C6_ReservedUntouched == ReservedBytes(nvm) = ReservedBytes(prev)

\* C9: acknowledging slot i in [0, count) makes nwEEPROMResetEventGet(i)
\* return acked = true with version, time and reason as before, and
\* acknowledging it again changes nothing.
C9_AcknowledgePersists ==
    op.name = "Acknowledge" =>
        LET before == nwEEPROMResetEventGet(prev, op.index)
            after  == nwEEPROMResetEventGet(nvm, op.index)
        IN  /\ after.ack = TRUE
            /\ after.version = before.version
            /\ after.time = before.time
            /\ after.reason = before.reason
            /\ AcknowledgeSlot(nvm, op.index) = nvm

\* C9 witness: an external-command event that was not acknowledged now is.
C9_Witness ==
    /\ op.name = "Acknowledge"
    /\ nwEEPROMResetEventGet(prev, op.index).ack = FALSE
    /\ nwEEPROMResetEventGet(prev, op.index).reason = NW_REASON_COMMAND_START
    /\ nwEEPROMResetEventGet(nvm, op.index).ack = TRUE
    /\ nwEEPROMResetEventGet(nvm, op.index).reason = NW_REASON_COMMAND_START

----------------------------------------------------------------------------
(* SpecCodec: an nwEvent object written to the EEPROM and read back        *)

\* reason codes of the objects written: the named codes, the ends of the
\* 7 bits range, and ints that do not fit in 7 bits
CodecReasons ==
    {NW_REASON_INIT, NW_REASON_NOPING, NW_REASON_COMMAND_START, NW_REASON_MAX,
     NW_REASON_MAX + 1, NW_REASON_MAX + 2, 255, 256, 256 + NW_REASON_COMMAND_START, -1}

\* values of now() at construction
CodecTimes == {0, 1, 86400}

\* addresses written: the initialization event, the first and the last slot
CodecAdrs ==
    {nwInitEventAdr, nwResetEventAdr,
     nwResetEventAdr + (NW_MAX_RESET_EVENT - 1) * nwEventStrSize}

InitCodec ==
    /\ nvm = Erased
    /\ prev = nvm
    /\ clock \in CodecTimes
    /\ \E r \in CodecReasons, a \in BOOLEAN : cur = acknowledge(nwEventReason(clock, r), a)
    /\ op = NoOp
    /\ hist = <<>>
    /\ stamps = <<>>
    /\ steps = 0
    /\ EngineIdle

\* ev.writeToEEPROM( adr )
CodecWrite ==
    /\ \E adr \in CodecAdrs :
          /\ nvm' = writeToEEPROM(nvm, cur, adr)
          /\ op' = [name |-> "writeToEEPROM", index |-> adr, ev |-> cur]
    /\ prev' = nvm
    /\ UNCHANGED <<clock, cur, hist, stamps, steps, engineVars>>

\* ev.readFromEEPROM( adr ), at the address just written; op.ev stays the
\* object that was written
CodecRead ==
    /\ op.name = "writeToEEPROM"
    /\ cur' = readFromEEPROM(nvm, op.index)
    /\ op' = [op EXCEPT !.name = "readFromEEPROM"]
    /\ prev' = nvm
    /\ UNCHANGED <<nvm, clock, hist, stamps, steps, engineVars>>

NextCodec == CodecWrite \/ CodecRead

SpecCodec == InitCodec /\ [][NextCodec]_vars

\* C3: for any event, also one built by nwEvent( r ) with any int r,
\* writeToEEPROM then readFromEEPROM at the same address returns the same
\* version, the same time, reason = r & 0x7F and the same acked flag.
C3_RoundTrip ==
    op.name = "readFromEEPROM" =>
        /\ cur.version = op.ev.version
        /\ cur.time = op.ev.time
        /\ cur.reason = op.ev.reason % 128
        /\ cur.ack = op.ev.ack

----------------------------------------------------------------------------
(* SpecRing: resets logged one after the other, from an empty log          *)

\* resets logged in a run of SpecRing
MaxInserts == 12
\* largest value of now()
MaxClock == 3

\* the log after REINIT: the initialization event, no reset event
EmptyLog == UsedLog(0, 0)

InitRing ==
    /\ clock = 1
    /\ nvm = EmptyLog
    /\ prev = nvm
    /\ cur = setup(clock)
    /\ op = NoOp
    /\ hist = <<>>
    /\ stamps = <<>>
    /\ steps = 0
    /\ EngineIdle

\* one second passes
ClockTick ==
    /\ clock < MaxClock
    /\ clock' = clock + 1
    /\ UNCHANGED <<nvm, prev, cur, op, hist, stamps, steps, engineVars>>

\* nwEvent ev; nwEEPROMResetEventSetNew( ev ): the event is stamped with
\* now() by its constructor, then inserted
StampAndInsert ==
    /\ cur' = nwEventDefault(clock)
    /\ nvm' = nwEEPROMResetEventSetNew(nvm, cur', 0)
    /\ op' = [name |-> "ResetEventSetNew", index |-> 0, ev |-> cur']
    /\ prev' = nvm
    /\ hist' = Append(hist, cur')
    /\ stamps' = Append(stamps, clock)
    /\ steps' = steps + 1
    /\ UNCHANGED <<clock, engineVars>>

RingInsert ==
    /\ Len(hist) < MaxInserts
    /\ StampAndInsert

NextRing == ClockTick \/ RingInsert

SpecRing == InitRing /\ [][NextRing]_vars

\* C2: from an empty log, after n inserts the count is min(n, 10) and slot k
\* holds the (n-k)-th inserted event for every k < count: the ring holds the
\* last min(n, 10) inserted events, newest first, and nothing older.
C2_RingHoldsLastTen ==
    LET n == Len(hist)
        c == nwEEPROMResetEventCountGet(nvm)
    IN  /\ c = Min(n, NW_MAX_RESET_EVENT)
        /\ \A k \in 0..(c - 1) :
              /\ nwEEPROMResetEventGet(nvm, k) = hist[n - k]
              /\ SlotBytes(nvm, k) = nwEventStr(hist[n - k])

\* C2 witness: 12 inserts, the two oldest (stamped 1) are no longer in the
\* ring, slot 9 holds the third insert (stamped 2), slot 0 the last one.
C2_Witness ==
    /\ Len(hist) = NW_MAX_RESET_EVENT + 2
    /\ hist[1].time = TimeT(1)
    /\ hist[2].time = TimeT(1)
    /\ hist[3].time = TimeT(2)
    /\ hist[Len(hist)].time = TimeT(3)
    /\ nwEEPROMResetEventCountGet(nvm) = NW_MAX_RESET_EVENT
    /\ nwEEPROMResetEventGet(nvm, 0).time = TimeT(3)
    /\ nwEEPROMResetEventGet(nvm, NW_MAX_RESET_EVENT - 1).time = TimeT(2)
    /\ \A k \in SlotArgs : nwEEPROMResetEventGet(nvm, k).time # TimeT(1)

----------------------------------------------------------------------------
(* SpecClock: resets logged while the wall clock runs and is set           *)

\* resets logged in a run of SpecClock
MaxStamped == 4

\* the log after n resets at time now, from an empty log
RECURSIVE InsertedLog(_, _)
InsertedLog(n, now) ==
    IF n = 0 THEN EmptyLog
    ELSE nwEEPROMResetEventSetNew(InsertedLog(n - 1, now), nwEventDefault(now), 0)

\* an empty log, or a log one insert away from being full
InitClock ==
    /\ clock = 1
    /\ \E n \in {0, NW_MAX_RESET_EVENT - 1} :
          /\ nvm = InsertedLog(n, clock)
          /\ hist = [k \in 1..n |-> nwEventDefault(clock)]
          /\ stamps = [k \in 1..n |-> clock]
    /\ prev = nvm
    /\ cur = setup(clock)
    /\ op = NoOp
    /\ steps = 0
    /\ EngineIdle

\* the wall clock is set, to an earlier or a later time
ClockSet ==
    /\ \E ts \in 0..MaxClock : clock' = ts
    /\ UNCHANGED <<nvm, prev, cur, op, hist, stamps, steps, engineVars>>

ClockInsert ==
    /\ steps < MaxStamped
    /\ StampAndInsert

NextClock == ClockTick \/ ClockSet \/ ClockInsert

SpecClock == InitClock /\ [][NextClock]_vars

\* the time of slot i is not earlier than the time of slot j, for all i < j < count
NewestFirst(m) ==
    \A i, j \in SlotArgs :
        (i < j /\ j < nwEEPROMResetEventCountGet(m)) =>
            TimeGE(nwEEPROMResetEventGet(m, i).time, nwEEPROMResetEventGet(m, j).time)

\* every slot in [0, count) holds an event that is not null
StoredNonNull(m) ==
    \A i \in SlotArgs :
        i < nwEEPROMResetEventCountGet(m) => ~isNull(nwEEPROMResetEventGet(m, i))

\* now() did not decrease from the construction of an event to the next one
ForwardStamps == \A k \in 1..(Len(stamps) - 1) : stamps[k] <= stamps[k + 1]

\* now() was not 0 when any of the events was constructed
NonZeroStamps == \A k \in 1..Len(stamps) : stamps[k] # 0

\* C7 as stated: in every reachable state the times of the slots [0, count)
\* never increase from slot 0 downward, also when the wall clock is changed
\* by SET DATE between resets.
C7_NewestFirstAlways == NewestFirst(nvm)

\* C7 amended: as long as now() was never lower at the construction of an
\* event than at the construction of the event inserted before it, the
\* times of the slots [0, count) never increase from slot 0 downward.
C7_NewestFirstForwardClock == ForwardStamps => NewestFirst(nvm)

\* C7 witness: a full log holding events of three different times, newest
\* first, each stamped no earlier than the one before.
C7_Witness ==
    /\ ForwardStamps
    /\ op.name = "ResetEventSetNew"
    /\ nwEEPROMResetEventCountGet(nvm) = NW_MAX_RESET_EVENT
    /\ nwEEPROMResetEventGet(nvm, 0).time = TimeT(3)
    /\ nwEEPROMResetEventGet(nvm, 1).time = TimeT(2)
    /\ nwEEPROMResetEventGet(nvm, 2).time = TimeT(1)

\* C8 as stated: every slot in [0, count) holds a non-null event, whatever
\* the clock value was when each event was constructed.
C8_StoredNonNullAlways == StoredNonNull(nvm)

\* C8 amended: as long as now() was not 0 when any of the inserted events
\* was constructed, every slot in [0, count) holds a non-null event.
C8_StoredNonNullClockSet == NonZeroStamps => StoredNonNull(nvm)

\* C8 witness: three freshly constructed events inserted into an empty log,
\* the clock set back in between, none of them stamped 0.
C8_Witness ==
    /\ NonZeroStamps
    /\ ~ForwardStamps
    /\ op.name = "ResetEventSetNew"
    /\ Len(hist) = 3
    /\ nwEEPROMResetEventCountGet(nvm) = 3
    /\ nwEEPROMResetEventGet(nvm, 0).time = TimeT(1)
    /\ nwEEPROMResetEventGet(nvm, 1).time = TimeT(2)

----------------------------------------------------------------------------
(* SpecPulse: nwBlinkPin statement by statement                            *)

\* calls of nwBlinkPin in a run of SpecPulse
MaxPulses == 10

\* elapsed milliseconds on/off for a led blink
LED_BLINK == 300

\* blink arguments of nwBlinkPin: the default and a longer one
BlinkArgs == {LED_BLINK, 2 * LED_BLINK}

InitPulse ==
    /\ nvm = EmptyLog
    /\ prev = nvm
    /\ clock = 0
    /\ cur = setup(clock)
    /\ op = NoOp
    /\ hist = <<>>
    /\ stamps = <<>>
    /\ steps = 0
    /\ EngineIdle

\* nwBlinkPin( p, ms ) is entered
BlinkCall ==
    /\ blink.pc = "idle"
    /\ pulses < MaxPulses
    /\ \E p \in PinArgs, ms \in BlinkArgs : blink' = [pc |-> "write1", pin |-> p, ms |-> ms]
    /\ UNCHANGED <<nvm, prev, clock, cur, op, hist, stamps, steps,
                   enabled, interval, date_set, last_ping, test_mode, latched, fires, pulses, pin>>

\* digitalWrite( pin, HIGH )
BlinkFirstWrite ==
    /\ blink.pc = "write1"
    /\ pin' = [pin EXCEPT ![blink.pin] = nwBlinkPinWrites[1]]
    /\ blink' = [blink EXCEPT !.pc = "delay"]
    /\ UNCHANGED <<nvm, prev, clock, cur, op, hist, stamps, steps,
                   enabled, interval, date_set, last_ping, test_mode, latched, fires, pulses>>

\* delay( blink ) returns
BlinkDelay ==
    /\ blink.pc = "delay"
    /\ blink' = [blink EXCEPT !.pc = "write2"]
    /\ UNCHANGED <<nvm, prev, clock, cur, op, hist, stamps, steps,
                   enabled, interval, date_set, last_ping, test_mode, latched, fires, pulses, pin>>

\* digitalWrite( pin, LOW ), and the return
BlinkSecondWrite ==
    /\ blink.pc = "write2"
    /\ pin' = [pin EXCEPT ![blink.pin] = nwBlinkPinWrites[2]]
    /\ blink' = [blink EXCEPT !.pc = "idle"]
    /\ pulses' = pulses + 1
    /\ UNCHANGED <<nvm, prev, clock, cur, op, hist, stamps, steps,
                   enabled, interval, date_set, last_ping, test_mode, latched, fires>>

NextPulse == BlinkCall \/ BlinkFirstWrite \/ BlinkDelay \/ BlinkSecondWrite

SpecPulse == InitPulse /\ [][NextPulse]_vars

\* C18: during the delay of nwBlinkPin the pin is HIGH, the write that
\* follows finds it HIGH and leaves it LOW at the return, and with every
\* output LOW at the start every output is LOW whenever no call is in
\* progress.
C18_PulseHighThenLow ==
    /\ [](blink.pc = "delay" => pin[blink.pin] = HIGH)
    /\ [](blink.pc = "idle" => \A p \in PinArgs : pin[p] = LOW)
    /\ [][(blink.pc = "write2" /\ blink'.pc = "idle") =>
             (pin[blink.pin] = HIGH /\ pin'[blink.pin] = LOW)]_vars

\* C18 witness: the third pulse on the reset output, in its delay
C18_Witness ==
    /\ pulses = 2
    /\ blink.pc = "delay"
    /\ blink.pin = ResetOut
    /\ blink.ms = LED_BLINK
    /\ pin[ResetOut] = HIGH
    /\ pin["Led"] = LOW

----------------------------------------------------------------------------
(* SpecEngine: the watchdog engine and its commands                        *)

\* fires in a run of SpecEngine
MaxFires == 2
\* largest value of now() in a run of SpecEngine
MaxUptime == 2
\* REINIT commands in a run of SpecEngine
MaxReinits == 1

\* arguments of SET INTERVAL: two accepted values and the two nearest
\* rejected ones
IntervalMin == 1
IntervalMax == 3600
IntervalArgs == {IntervalMin - 1, IntervalMin, IntervalMax + 1}

\* arguments of REBOOT: a rejected one and an accepted one
RebootArgs == {5, NW_REASON_COMMAND_START}

\* REINIT: the initialization event written, the count of reset events zeroed
ReinitLog(m, now) ==
    EEPROMput(nwEEPROMInitEventSet(m, nwEventReason(now, NW_REASON_INIT)),
              nwResetCountAdr, IntBytes(0))

\* the engine after boot, on a fresh device or on an initialized log
InitEngine ==
    /\ clock = 0
    /\ nvm = EmptyLog
    /\ prev = nvm
    /\ cur = setup(clock)
    /\ op = NoOp
    /\ hist = <<>>
    /\ stamps = <<>>
    /\ steps = 0
    /\ EngineIdle

\* fire that leaves the watchdog armed when in test mode
FireKeepsArmedInTest(reason) ==
    /\ fires < MaxFires
    /\ cur' = nwEventReason(clock, reason)
    /\ nvm' = nwEEPROMResetEventSetNew(nvm, cur', 0)
    /\ op' = [name |-> "ResetEventSetNew", index |-> 0, ev |-> cur']
    /\ prev' = nvm
    /\ hist' = Append(hist, cur')
    /\ stamps' = Append(stamps, clock)
    /\ fires' = fires + 1
    /\ steps' = steps + 1
    /\ IF test_mode
       THEN /\ blink' = blink
            /\ enabled' = enabled
            /\ latched' = TRUE
       ELSE /\ blink' = [pc |-> "write1", pin |-> ResetOut, ms |-> LED_BLINK]
            /\ enabled' = enabled
            /\ latched' = latched
    /\ UNCHANGED <<pin, pulses>>

\* fire( reason ), up to the pulse: the event is constructed and inserted in
\* the log; in test mode there is no pulse and the watchdog is disabled at
\* once, otherwise nwBlinkPin is entered on the reset output
Fire(reason) ==
    /\ fires < MaxFires
    /\ cur' = nwEventReason(clock, reason)
    /\ nvm' = nwEEPROMResetEventSetNew(nvm, cur', 0)
    /\ op' = [name |-> "ResetEventSetNew", index |-> 0, ev |-> cur']
    /\ prev' = nvm
    /\ hist' = Append(hist, cur')
    /\ stamps' = Append(stamps, clock)
    /\ fires' = fires + 1
    /\ steps' = steps + 1
    /\ IF test_mode
       THEN /\ blink' = blink
            /\ enabled' = FALSE
            /\ latched' = TRUE
       ELSE /\ blink' = [pc |-> "write1", pin |-> ResetOut, ms |-> LED_BLINK]
            /\ enabled' = enabled
            /\ latched' = latched
    /\ UNCHANGED <<pin, pulses>>

\* fire( reason ), from the end of the pulse: digitalWrite( pin, LOW ),
\* nwBlinkPin returns and the watchdog is disabled
FirePulseEnd ==
    /\ blink.pc = "write2"
    /\ pin' = [pin EXCEPT ![blink.pin] = nwBlinkPinWrites[2]]
    /\ blink' = [blink EXCEPT !.pc = "idle"]
    /\ pulses' = pulses + 1
    /\ enabled' = FALSE
    /\ latched' = TRUE
    /\ UNCHANGED <<nvm, prev, clock, cur, op, hist, stamps, steps,
                   interval, date_set, last_ping, test_mode, fires>>

\* the difference taken modulo 2^32: below last_ping it wraps above every
\* interval of IntervalMin..IntervalMax
NoPingDueWrapped(now, ping, delay) ==
    IF now >= ping THEN now - ping >= delay ELSE TRUE

\* tick contract, step 4: now() - last_ping >= interval
NoPingDue(now, ping, delay) ==
    now - ping >= delay

\* tick that acts on an unset wall clock
TickNoDateCheck ==
    /\ blink.pc = "idle"
    /\ IF ~enabled
       THEN UNCHANGED vars
       ELSE LET ping == IF last_ping = 0 THEN clock ELSE last_ping
            IN  /\ last_ping' = ping
                /\ IF NoPingDue(clock, ping, interval)
                   THEN /\ Fire(NW_REASON_NOPING)
                        /\ UNCHANGED <<clock, interval, date_set, test_mode>>
                   ELSE UNCHANGED <<nvm, prev, clock, cur, op, hist, stamps, steps,
                                    enabled, interval, date_set, test_mode, latched, fires, pulses, pin, blink>>

\* one pass of the run loop over the tick contract
Tick ==
    /\ blink.pc = "idle"
    /\ IF ~enabled \/ ~date_set
       THEN UNCHANGED vars
       ELSE LET ping == IF last_ping = 0 THEN clock ELSE last_ping
            IN  /\ last_ping' = ping
                /\ IF NoPingDue(clock, ping, interval)
                   THEN /\ Fire(NW_REASON_NOPING)
                        /\ UNCHANGED <<clock, interval, date_set, test_mode>>
                   ELSE UNCHANGED <<nvm, prev, clock, cur, op, hist, stamps, steps,
                                    enabled, interval, date_set, test_mode, latched, fires, pulses, pin, blink>>

\* one second passes
Elapse ==
    /\ clock < MaxUptime
    /\ clock' = clock + 1
    /\ UNCHANGED <<nvm, prev, cur, op, hist, stamps, steps, engineVars>>

\* SET DATE <ts>: set the wall clock, the date is now set
SetDate ==
    /\ blink.pc = "idle"
    /\ \E ts \in 0..MaxUptime : clock' = ts
    /\ date_set' = TRUE
    /\ UNCHANGED <<nvm, prev, cur, op, hist, stamps, steps,
                   enabled, interval, last_ping, test_mode, latched, fires, pulses, pin, blink>>

\* PING
Ping ==
    /\ blink.pc = "idle"
    /\ last_ping' = clock
    /\ UNCHANGED <<nvm, prev, clock, cur, op, hist, stamps, steps,
                   enabled, interval, date_set, test_mode, latched, fires, pulses, pin, blink>>

\* SET INTERVAL <s>: rejected outside 1..3600
SetInterval ==
    /\ blink.pc = "idle"
    /\ \E s \in IntervalArgs :
          interval' = IF s >= IntervalMin /\ s <= IntervalMax THEN s ELSE interval
    /\ UNCHANGED <<nvm, prev, clock, cur, op, hist, stamps, steps,
                   enabled, date_set, last_ping, test_mode, latched, fires, pulses, pin, blink>>

\* SET TEST ON|OFF
SetTest ==
    /\ blink.pc = "idle"
    /\ \E on \in BOOLEAN : test_mode' = on
    /\ UNCHANGED <<nvm, prev, clock, cur, op, hist, stamps, steps,
                   enabled, interval, date_set, last_ping, latched, fires, pulses, pin, blink>>

\* START: enable, clear last_ping
Start ==
    /\ blink.pc = "idle"
    /\ enabled' = TRUE
    /\ last_ping' = 0
    /\ latched' = FALSE
    /\ UNCHANGED <<nvm, prev, clock, cur, op, hist, stamps, steps,
                   interval, date_set, test_mode, fires, pulses, pin, blink>>

\* STOP: disable
Stop ==
    /\ blink.pc = "idle"
    /\ enabled' = FALSE
    /\ UNCHANGED <<nvm, prev, clock, cur, op, hist, stamps, steps,
                   interval, date_set, last_ping, test_mode, latched, fires, pulses, pin, blink>>

\* REINIT: reinitialize the event log, disable
Reinit ==
    /\ blink.pc = "idle"
    /\ steps - fires < MaxReinits
    /\ steps' = steps + 1
    /\ nvm' = ReinitLog(nvm, clock)
    /\ prev' = nvm
    /\ cur' = nwEventReason(clock, NW_REASON_INIT)
    /\ op' = [name |-> "InitEventSet", index |-> 0, ev |-> cur']
    /\ hist' = <<>>
    /\ stamps' = <<>>
    /\ enabled' = FALSE
    /\ UNCHANGED <<clock, interval, date_set, last_ping, test_mode, latched, fires, pulses, pin, blink>>

\* REBOOT <reason>: fire with the given reason, rejected below NW_REASON_COMMAND_START
Reboot ==
    /\ blink.pc = "idle"
    /\ \E reason \in RebootArgs :
          IF reason >= NW_REASON_COMMAND_START /\ reason <= NW_REASON_MAX
          THEN /\ Fire(reason)
               /\ UNCHANGED <<clock, interval, date_set, last_ping, test_mode>>
          ELSE UNCHANGED vars

NextEngine ==
    \/ Elapse
    \/ Tick
    \/ Ping
    \/ SetDate
    \/ SetInterval
    \/ SetTest
    \/ Start
    \/ Stop
    \/ Reinit
    \/ Reboot
    \/ BlinkFirstWrite
    \/ BlinkDelay
    \/ FirePulseEnd

SpecEngine == InitEngine /\ [][NextEngine]_vars

\* C10: after any fire, enabled is false in every state until START is
\* executed, and no fire with reason NOPING happens between a fire and the
\* next START; a fire is complete when its pulse has ended, and nothing
\* fires while a pulse is in progress.
C10_DisabledUntilStart ==
    /\ [](latched => ~enabled)
    /\ [][fires' > fires => blink.pc = "idle"]_vars
    /\ [][(blink.pc # "idle" /\ blink'.pc = "idle") => (~enabled' /\ latched')]_vars
    /\ [][(latched /\ fires' > fires) => cur'.reason # NW_REASON_NOPING]_vars

\* C10 witness: a missed ping fired, then an external REBOOT fired, and the
\* watchdog is still disabled and no START was executed since.
C10_Witness ==
    /\ latched
    /\ ~enabled
    /\ fires = 2
    /\ Len(hist) = 2
    /\ hist[1].reason = NW_REASON_NOPING
    /\ hist[2].reason = NW_REASON_COMMAND_START
    /\ stamps[1] = stamps[2]
    /\ pulses = 2

\* C11: a step taken while test_mode is true never issues a reset pulse (the
\* reset output stays LOW and nwBlinkPin is not entered), and
\* a fire while test_mode is true leaves the log with one more event (ten at
\* most), the new event in slot 0, and the former events one slot further.
C11_TestFireLogsNoPulse ==
    [][/\ test_mode => (pulses' = pulses /\ pin'[ResetOut] = LOW /\ blink'.pc = "idle")
       /\ (test_mode /\ fires' > fires) =>
             LET c == nwEEPROMResetEventCountGet(nvm)
                 n == nwEEPROMResetEventCountGet(nvm')
             IN  /\ n = Min(c + 1, NW_MAX_RESET_EVENT)
                 /\ nwEEPROMResetEventGet(nvm', 0) = cur'
                 /\ cur'.time = TimeT(clock)
                 /\ \A i \in 1..(n - 1) : SlotBytes(nvm', i) = SlotBytes(nvm, i - 1)
                 /\ nwEEPROMInitEventGet(nvm') = nwEEPROMInitEventGet(nvm)]_vars

\* C11 witness: two fires in test mode, a missed ping then a REBOOT: both
\* are in the log, the later one in slot 0, and no pulse was issued.
C11_Witness ==
    /\ test_mode
    /\ fires = 2
    /\ pulses = 0
    /\ nwEEPROMResetEventCountGet(nvm) = 2
    /\ nwEEPROMResetEventGet(nvm, 0).reason = NW_REASON_COMMAND_START
    /\ nwEEPROMResetEventGet(nvm, 1).reason = NW_REASON_NOPING

\* C12: an event with reason NOPING is inserted, and a NOPING pulse entered,
\* only at a tick at which the clock has reached last_ping + interval, with
\* last_ping set by the grace of START or by PING; a tick at which it has not
\* leaves the log, the fires and the reset output as they are.
C12_NoPingOnlyWhenIntervalReached ==
    /\ [][(fires' > fires /\ cur'.reason = NW_REASON_NOPING) =>
             (last_ping # 0 /\ clock >= last_ping + interval)]_vars
    /\ [][(blink.pc = "idle" /\ blink'.pc # "idle" /\ cur'.reason = NW_REASON_NOPING) =>
             (last_ping # 0 /\ clock >= last_ping + interval)]_vars
    /\ [][(last_ping = 0 \/ clock < last_ping + interval) =>
             (cur'.reason = NW_REASON_NOPING =>
                 (nvm' = nvm /\ fires' = fires /\ pin' = pin /\ blink' = blink))]_vars

\* C12 witness: PING or the grace of START left last_ping at 1, the interval
\* is 1 and the tick at clock 2 fired NOPING: the event is in slot 0 and the
\* pulse is entered.
C12_Witness ==
    /\ date_set
    /\ enabled
    /\ ~test_mode
    /\ interval = 1
    /\ last_ping = 1
    /\ clock = 2
    /\ fires = 1
    /\ blink.pc = "write1"
    /\ cur.reason = NW_REASON_NOPING
    /\ nwEEPROMResetEventGet(nvm, 0) = cur

\* C13 as stated: while no SET DATE was executed, no reset pulse is issued
\* and no reset event is inserted, whatever commands and ticks occur.
C13_NoResetBeforeSetDate ==
    ~date_set =>
        /\ fires = 0
        /\ pulses = 0
        /\ nwEEPROMResetEventCountGet(nvm) = 0

\* C13 amended: while no SET DATE was executed no tick fires: every reset
\* event in the log, and every pulse, comes from a REBOOT command.
C13_NoTickFireBeforeSetDate ==
    ~date_set =>
        /\ \A k \in 1..Len(hist) : hist[k].reason >= NW_REASON_COMMAND_START
        /\ \A i \in SlotArgs :
              i < nwEEPROMResetEventCountGet(nvm) =>
                  nwEEPROMResetEventGet(nvm, i).reason >= NW_REASON_COMMAND_START
        /\ op.name = "ResetEventSetNew" => cur.reason >= NW_REASON_COMMAND_START

\* C13 witness: the date never set, the watchdog started and the clock at
\* its largest; the one reset that happened is a REBOOT.
C13_Witness ==
    /\ ~date_set
    /\ clock = MaxUptime
    /\ last_ping # 0
    /\ fires = 1
    /\ pulses = 1
    /\ nwEEPROMResetEventGet(nvm, 0).reason = NW_REASON_COMMAND_START

----------------------------------------------------------------------------
(* SpecValue, SpecReason: the constructors of nwEvent, the reason label     *)

\* largest magnitude of the reason codes passed to nwReasonString, next to
\* the two ends of int
MaxCode == 40

\* label that takes NW_REASON_COMMAND_START itself for an unknown code
nwReasonStringAbove(code) ==
    IF code = NW_REASON_INIT THEN "initialization"
    ELSE IF code = NW_REASON_NOPING THEN "no ping"
    ELSE IF code > NW_REASON_COMMAND_START THEN "external command"
    ELSE "unknown reason code"

\* nwReasonString( code )
nwReasonString(code) ==
    IF code = NW_REASON_INIT THEN "initialization"
    ELSE IF code = NW_REASON_NOPING THEN "no ping"
    ELSE IF code >= NW_REASON_COMMAND_START THEN "external command"
    ELSE "unknown reason code"

\* int arguments of nwReasonString
ReasonCodeArgs == ((0 - MaxCode)..MaxCode) \cup {-32768, NW_REASON_MAX, NW_REASON_MAX + 1, 32767}

\* int arguments of nwEvent( reason )
CtorReasonArgs == {-32768, -1, 0, 1, 2, 15, 16, 17, 127, 128, 255, 256, 32767}

InitValue ==
    /\ nvm = Erased
    /\ prev = nvm
    /\ clock \in CodecTimes
    /\ cur = setup(clock)
    /\ op = NoOp
    /\ hist = <<>>
    /\ stamps = <<>>
    /\ steps = 0
    /\ EngineIdle

\* nwEvent ev;
NewEvent ==
    /\ cur' = nwEventDefault(clock)
    /\ op' = [name |-> "nwEvent", index |-> NW_REASON_DEFAULT, ev |-> cur']
    /\ stamps' = <<clock>>
    /\ UNCHANGED <<nvm, prev, clock, hist, steps, engineVars>>

\* nwEvent ev( reason );
NewEventReason ==
    /\ \E reason \in CtorReasonArgs :
          /\ cur' = nwEventReason(clock, reason)
          /\ op' = [name |-> "nwEvent", index |-> reason, ev |-> cur']
    /\ stamps' = <<clock>>
    /\ UNCHANGED <<nvm, prev, clock, hist, steps, engineVars>>

\* nwReasonString( code ), its result kept in op.ev
ReasonString ==
    /\ \E code \in ReasonCodeArgs :
          op' = [name |-> "nwReasonString", index |-> code, ev |-> nwReasonString(code)]
    /\ UNCHANGED <<nvm, prev, clock, cur, hist, stamps, steps, engineVars>>

NextValue == NewEvent \/ NewEventReason \/ ClockSet

SpecValue == InitValue /\ [][NextValue]_vars

NextReason == ReasonString

SpecReason == InitValue /\ [][NextReason]_vars

\* C14: nwReasonString returns "initialization" iff the code is 0, "no ping"
\* iff it is 1, "external command" iff it is 16 or more, "unknown reason
\* code" for every other code, and never anything else.
C14_ReasonLabels ==
    op.name = "nwReasonString" =>
        LET c == op.index
            label == op.ev
        IN  /\ label \in {"initialization", "no ping", "external command", "unknown reason code"}
            /\ label = "initialization" <=> c = 0
            /\ label = "no ping" <=> c = 1
            /\ label = "external command" <=> c >= 16
            /\ label = "unknown reason code" <=> (c < 0 \/ (c >= 2 /\ c <= 15))

\* C14 witness: the label of the first code of the external commands
C14_Witness ==
    /\ op.name = "nwReasonString"
    /\ op.index = 16
    /\ op.ev = "external command"

\* C15: a newly constructed event is not acknowledged, holds the clock value
\* of its construction, the version string of the firmware (NUL padded),
\* and the reason NOPING, or the reason given to the constructor.
C15_NewEventFields ==
    op.name = "nwEvent" =>
        /\ cur.ack = FALSE
        /\ cur.time = TimeT(stamps[1])
        /\ SubSeq(cur.version, 1, Len(nwVersionString)) = nwVersionString
        /\ \A k \in (Len(nwVersionString) + 1)..nwVersionSize : cur.version[k] = 0
        /\ cur.reason = op.index
        /\ op.index = NW_REASON_NOPING \/ op.index \in CtorReasonArgs

\* C15 witness: an event constructed with reason 128 after the clock was set
C15_Witness ==
    /\ op.name = "nwEvent"
    /\ op.index = 128
    /\ cur.reason = 128
    /\ stamps = <<3>>
    /\ clock = 0

----------------------------------------------------------------------------
(* Further claims checked under SpecLog                                    *)

\* C16: nwEEPROMResetEventSet( ev, i ) with i in [0, 10) leaves the stored
\* count, the initialization event, every slot other than i and the unused
\* bytes as they were, and slot i holding ev.
C16_SetChangesOnlySlot ==
    op.name = "ResetEventSet" =>
        /\ EEPROMget(nvm, nwResetCountAdr, SizeofInt) = EEPROMget(prev, nwResetCountAdr, SizeofInt)
        /\ EEPROMget(nvm, nwInitEventAdr, nwEventStrSize) = EEPROMget(prev, nwInitEventAdr, nwEventStrSize)
        /\ \A j \in SlotArgs : j # op.index => SlotBytes(nvm, j) = SlotBytes(prev, j)
        /\ ReservedBytes(nvm) = ReservedBytes(prev)
        /\ SlotBytes(nvm, op.index) = nwEventStr(op.ev)

\* C16 witness: slot 9 of a full log overwritten with a different event
C16_Witness ==
    /\ op.name = "ResetEventSet"
    /\ op.index = NW_MAX_RESET_EVENT - 1
    /\ nwEEPROMResetEventCountGet(prev) = NW_MAX_RESET_EVENT
    /\ SlotBytes(nvm, op.index) # SlotBytes(prev, op.index)
    /\ SlotBytes(nvm, op.index) = nwEventStr(op.ev)

\* C17: after nwEEPROMResetEventSetNew( ev, index ) with index in [0, 10),
\* slot index holds ev.
C17_SetNewWritesAtIndex ==
    op.name = "ResetEventSetNew" => SlotBytes(nvm, op.index) = nwEventStr(op.ev)

----------------------------------------------------------------------------
(* SpecAck: events acknowledged in the ring, then shifted by later resets  *)

\* resets logged in a run of SpecAck
MaxAckInserts == 3

\* events acknowledged in a run of SpecAck
MaxAcks == 2

\* the events of hist that were acknowledged
Acked == {k \in 1..Len(hist) : hist[k].ack}

\* ACKNOWLEDGE <index> on a slot below the count; hist follows the event
AckStored ==
    /\ Cardinality(Acked) < MaxAcks
    /\ \E index \in SlotArgs :
          /\ index < nwEEPROMResetEventCountGet(nvm)
          /\ nvm' = AcknowledgeSlot(nvm, index)
          /\ cur' = acknowledge(nwEEPROMResetEventGet(nvm, index), TRUE)
          /\ op' = [name |-> "Acknowledge", index |-> index, ev |-> cur']
          /\ hist' = [hist EXCEPT ![Len(hist) - index] = acknowledge(@, TRUE)]
    /\ prev' = nvm
    /\ UNCHANGED <<clock, stamps, steps, engineVars>>

AckInsert ==
    /\ steps < MaxAckInserts
    /\ StampAndInsert

NextAck == ClockTick \/ AckStored \/ AckInsert

SpecAck == InitClock /\ [][NextAck]_vars

\* C19: every event within slots [0, count) reads back with the acked flag
\* it was given, whatever number of inserts shifted it since: acknowledged
\* events stay acknowledged, the others stay not acknowledged.
C19_AckSurvivesInserts ==
    LET n == Len(hist)
        c == nwEEPROMResetEventCountGet(nvm)
    IN  \A k \in 0..(c - 1) :
            /\ nwEEPROMResetEventGet(nvm, k).ack = hist[n - k].ack
            /\ nwEEPROMResetEventGet(nvm, k) = hist[n - k]

\* C19 witness: slot 7 of a log of nine events acknowledged, then two
\* resets: the event reads back acknowledged in slot 9 of the full log, the
\* only one.
C19_Witness ==
    /\ Len(hist) = NW_MAX_RESET_EVENT + 1
    /\ Acked = {2}
    /\ op.name = "ResetEventSetNew"
    /\ nwEEPROMResetEventCountGet(nvm) = NW_MAX_RESET_EVENT
    /\ nwEEPROMResetEventGet(nvm, 9).ack
    /\ \A k \in 0..8 : ~nwEEPROMResetEventGet(nvm, k).ack

----------------------------------------------------------------------------
(* SpecCrash: nwEEPROMResetEventSetNew write by write, with power losses   *)

\* calls of nwEEPROMResetEventSetNew in a run of SpecCrash
MaxCrashInserts == 2

\* the parts of nwEEPROMResetEventSetNew with the count written first
SetNewStagesCountFirst == <<"SetNew:count", "SetNew:loop", "SetNew:slot0", "ResetEventSetNew">>

\* the parts of nwEEPROMResetEventSetNew in the order of the code: the
\* shift loop, the write of slot 0, the write of the count, the return
SetNewStages == <<"SetNew:loop", "SetNew:slot0", "SetNew:count", "ResetEventSetNew">>

\* the part that follows part st
StageAfter(st) ==
    SetNewStages[(CHOOSE k \in 1..(Len(SetNewStages) - 1) : SetNewStages[k] = st) + 1]

\* if( count == NW_MAX_RESET_EVENT ) count -= 1
ShiftFrom(count) == IF count = NW_MAX_RESET_EVENT THEN count - 1 ELSE count

\* a call of nwEEPROMResetEventSetNew is in progress
InSetNew == op.name \in {"SetNew:loop", "SetNew:slot0", "SetNew:count"}

InitCrash ==
    /\ nvm \in {UsedLog(n, n) : n \in 0..NW_MAX_RESET_EVENT}
    /\ prev = nvm
    /\ clock = NW_MAX_RESET_EVENT + 1
    /\ cur = setup(clock)
    /\ op = NoOp
    /\ hist = <<>>
    /\ stamps = <<>>
    /\ steps = 0
    /\ EngineIdle

\* the call: count is read and lowered by one when the log is full
CrashCall ==
    /\ ~InSetNew
    /\ steps < MaxCrashInserts
    /\ \E ev \in EventArgs(clock) :
          /\ cur' = ev
          /\ op' = [name  |-> SetNewStages[1],
                    index |-> ShiftFrom(nwEEPROMResetEventCountGet(nvm)),
                    ev    |-> ev,
                    count |-> ShiftFrom(nwEEPROMResetEventCountGet(nvm))]
    /\ prev' = nvm
    /\ steps' = steps + 1
    /\ UNCHANGED <<nvm, clock, hist, stamps, engineVars>>

\* one turn of the loop: slot i := slot i-1; --i
CrashShift ==
    /\ op.name = "SetNew:loop"
    /\ op.index > 0
    /\ nvm' = nwEEPROMResetEventSet(nvm, nwEEPROMResetEventGet(nvm, op.index - 1), op.index)
    /\ op' = [op EXCEPT !.index = op.index - 1]
    /\ UNCHANGED <<prev, clock, cur, hist, stamps, steps, engineVars>>

\* the loop ends: i > 0 is false
CrashLoopExit ==
    /\ op.name = "SetNew:loop"
    /\ op.index = 0
    /\ op' = [op EXCEPT !.name = StageAfter(op.name)]
    /\ UNCHANGED <<nvm, prev, clock, cur, hist, stamps, steps, engineVars>>

\* nwEEPROMResetEventSet( ev, 0 )
CrashSlot0 ==
    /\ op.name = "SetNew:slot0"
    /\ nvm' = nwEEPROMResetEventSet(nvm, op.ev, 0)
    /\ op' = [op EXCEPT !.name = StageAfter(op.name)]
    /\ UNCHANGED <<prev, clock, cur, hist, stamps, steps, engineVars>>

\* count += 1; EEPROM.put( nwResetCountAdr, count )
CrashCount ==
    /\ op.name = "SetNew:count"
    /\ nvm' = EEPROMput(nvm, nwResetCountAdr, IntBytes(op.count + 1))
    /\ op' = [op EXCEPT !.name = StageAfter(op.name)]
    /\ UNCHANGED <<prev, clock, cur, hist, stamps, steps, engineVars>>

\* the power is lost during the call: the EEPROM keeps the writes made so
\* far, the call is gone
PowerLoss ==
    /\ InSetNew
    /\ op' = [op EXCEPT !.name = "PowerLoss"]
    /\ UNCHANGED <<nvm, prev, clock, cur, hist, stamps, steps, engineVars>>

NextCrash ==
    \/ CrashCall
    \/ CrashShift
    \/ CrashLoopExit
    \/ CrashSlot0
    \/ CrashCount
    \/ PowerLoss

SpecCrash == InitCrash /\ [][NextCrash]_vars

\* the stored events of slots [0, c) of m, as bytes
StoredEvents(m, c) == {SlotBytes(m, j) : j \in 0..(c - 1)}

\* C20: after a power loss during nwEEPROMResetEventSetNew on a log of c
\* events (c in 0..10), between any two of its writes, the stored count is
\* c or min(c + 1, 10) and every slot below it holds the event being
\* inserted or an event of slots [0, c) before the call; a call that
\* returns leaves what nwEEPROMResetEventSetNew leaves in one step.
C20_InterruptedInsert ==
    /\ op.name = "PowerLoss" =>
          LET c == nwEEPROMResetEventCountGet(prev)
              n == nwEEPROMResetEventCountGet(nvm)
          IN  /\ n \in {c, Min(c + 1, NW_MAX_RESET_EVENT)}
              /\ \A k \in 0..(n - 1) :
                    SlotBytes(nvm, k) \in StoredEvents(prev, c) \cup {nwEventStr(op.ev)}
    /\ op.name = "ResetEventSetNew" => nvm = nwEEPROMResetEventSetNew(prev, op.ev, 0)

\* C20 witness: the power lost in the insert into a full log after the
\* shift from slot 4 to slot 5: slots 4 and 5 hold the same event, and the
\* oldest event is gone.
C20_Witness ==
    /\ op.name = "PowerLoss"
    /\ op.index = 4
    /\ nwEEPROMResetEventCountGet(prev) = NW_MAX_RESET_EVENT
    /\ nwEEPROMResetEventCountGet(nvm) = NW_MAX_RESET_EVENT
    /\ SlotBytes(nvm, 5) = SlotBytes(nvm, 4)
    /\ SlotBytes(nvm, 9) = SlotBytes(prev, 8)
    /\ SlotBytes(prev, 9) \notin StoredEvents(nvm, NW_MAX_RESET_EVENT)

====
